---- MODULE Spec2Model ----
(***************************************************************************)
(* A model of src/train.py: the Trainer class of the lesion-boundary       *)
(* segmentation project.  The Trainer's fields are the state; each public  *)
(* method is one action.  Python values are modelled as tagged records,    *)
(* dictionaries as functions over their key set, strings as sequences of   *)
(* one-character strings, and numpy arrays as sequences of samples.        *)
(***************************************************************************)
EXTENDS Integers, Sequences, FiniteSets, TLC

VARIABLES
    augument,                  \* self.augument
    augument_mask,             \* self.augument_mask
    preprocessing_parameters,  \* self.preprocessing_parameters
    mlflow,                    \* self.mlflow
    model,                     \* self.model: "None" or "UNet"
    input_shape,               \* self.input_shape: "default" (1,) or "train_shape"
    data,                      \* self.data
    generators,                \* the generators and flows load_data creates
    model_dir,                 \* the model directory on disk
    ctor_args,                 \* the two override mappings given to __init__
    last_op,                   \* the method that ran last
    settings,                  \* the argument of the last load_prep_from_settings_string
    mlflow_calls,              \* the calls the last method made to the tracking service
    outcome,                   \* what the last method returned or raised
    metrics,                   \* the accumulators of test_model_additional_metrics
    seen                       \* the kinds of test samples its loop has consumed

vars == << augument, augument_mask, preprocessing_parameters, mlflow, model,
           input_shape, data, generators, model_dir, ctor_args,
           last_op, settings, mlflow_calls, outcome, metrics, seen >>

----------------------------------------------------------------------------
(* Bounds of the model *)

MaxOverrides == 1       \* keys in an override mapping given to __init__
MaxSamples == 2         \* samples in a split of the data set
MaxTestSamples == 4     \* samples in the test split of the metric checks
NumPixels == 2          \* pixels of a mask in the metric checks

----------------------------------------------------------------------------
(* Python values *)

IntV(i) == [kind |-> "int", n |-> i, s |-> << >>]
\* a decimal with at most two fractional digits, held in hundredths:
\* FloatV(10) is 0.1 and FloatV(-50) is -0.5
FloatV(t) == [kind |-> "float", n |-> t, s |-> << >>]
BoolV(b) == [kind |-> "bool", n |-> IF b THEN 1 ELSE 0, s |-> << >>]
StrV(str) == [kind |-> "str", n |-> 0, s |-> str]

Truthy(v) == IF v.kind = "str" THEN v.s # << >> ELSE v.n # 0

Digits == {"0", "1", "2", "3", "4", "5", "6", "7", "8", "9"}

DigitChar(d) ==
    CASE d = 0 -> "0" [] d = 1 -> "1" [] d = 2 -> "2" [] d = 3 -> "3"
      [] d = 4 -> "4" [] d = 5 -> "5" [] d = 6 -> "6" [] d = 7 -> "7"
      [] d = 8 -> "8" [] OTHER -> "9"

RECURSIVE NatStr(_)
NatStr(n) == IF n < 10 THEN << DigitChar(n) >>
             ELSE NatStr(n \div 10) \o << DigitChar(n % 10) >>

Abs(i) == IF i < 0 THEN -i ELSE i

\* str(value)
PyStr(v) ==
    CASE v.kind = "int" ->
           (IF v.n < 0 THEN << "-" >> ELSE << >>) \o NatStr(Abs(v.n))
      [] v.kind = "float" ->
           (IF v.n < 0 THEN << "-" >> ELSE << >>)
             \o NatStr(Abs(v.n) \div 100) \o << "." >>
             \o << DigitChar((Abs(v.n) % 100) \div 10) >>
             \o (IF Abs(v.n) % 10 = 0 THEN << >>
                 ELSE << DigitChar(Abs(v.n) % 10) >>)
      [] v.kind = "bool" ->
           (IF v.n = 1 THEN << "T", "r", "u", "e" >>
                       ELSE << "F", "a", "l", "s", "e" >>)
      [] OTHER -> v.s

\* s.replace('.', '', 1)
RECURSIVE ReplaceFirstDot(_)
ReplaceFirstDot(s) ==
    IF s = << >> THEN << >>
    ELSE IF Head(s) = "." THEN Tail(s)
    ELSE << Head(s) >> \o ReplaceFirstDot(Tail(s))

\* s.isdigit()
IsDigit(s) == s # << >> /\ \A i \in 1..Len(s) : s[i] \in Digits

RECURSIVE Repeat(_, _)
Repeat(s, k) == IF k <= 0 THEN << >> ELSE s \o Repeat(s, k - 1)

\* value *= factor, for an integer factor (a string is repeated, a flag
\* becomes an integer)
PyMul(v, f) ==
    CASE v.kind = "float" -> FloatV(v.n * f)
      [] v.kind = "str" -> StrV(Repeat(v.s, f))
      [] OTHER -> IntV(v.n * f)

----------------------------------------------------------------------------
(* Dictionaries *)

EmptyDict == [k \in {} |-> IntV(0)]

\* for key, value in o.items(): d[key] = value
Merge(d, o) ==
    [k \in DOMAIN d \cup DOMAIN o |-> IF k \in DOMAIN o THEN o[k] ELSE d[k]]

\* the module-level params
params == [shuffle |-> TRUE, seed |-> 1]

DefaultBatchSize == 8

DefaultAugument ==
    [k \in {"rotation_range", "zoom_range", "width_shift_range",
            "height_shift_range", "fill_mode", "cval", "shear_range",
            "horizontal_flip", "vertical_flip"} |->
        CASE k = "rotation_range" -> IntV(30)
          [] k = "zoom_range" -> FloatV(10)
          [] k = "width_shift_range" -> FloatV(10)
          [] k = "height_shift_range" -> FloatV(10)
          [] k = "fill_mode" -> StrV(<< "c", "o", "n", "s", "t", "a", "n", "t" >>)
          [] k = "cval" -> FloatV(0)
          [] k = "shear_range" -> FloatV(20)
          [] k = "horizontal_flip" -> BoolV(TRUE)
          [] OTHER -> BoolV(TRUE)]

DefaultPreprocessingParameters ==
    [k \in {"augumentation", "augumentation_factor", "normalization",
            "histogram_equalization", "histogram_cutoff_percentage",
            "remove_vignette_algorithm", "add_border", "border_width",
            "per_channel_normalization", "gaussian_blur",
            "gaussian_blur_radius", "zca_whitening", "connected_components"} |->
        CASE k = "augumentation" -> BoolV(FALSE)
          [] k = "augumentation_factor" -> IntV(1)
          [] k = "normalization" -> BoolV(TRUE)
          [] k = "histogram_equalization" -> BoolV(FALSE)
          [] k = "histogram_cutoff_percentage" -> FloatV(2)
          [] k = "remove_vignette_algorithm" -> BoolV(FALSE)
          [] k = "add_border" -> BoolV(FALSE)
          [] k = "border_width" -> IntV(20)
          [] k = "per_channel_normalization" -> BoolV(FALSE)
          [] k = "gaussian_blur" -> BoolV(FALSE)
          [] k = "gaussian_blur_radius" -> IntV(2)
          [] k = "zca_whitening" -> BoolV(FALSE)
          [] OTHER -> BoolV(FALSE)]

----------------------------------------------------------------------------
(* Trainer.__init__ *)

\* the test for a "multiplicable" parameter
IsMultiplicable(v) == IsDigit(ReplaceFirstDot(PyStr(v)))

\* the scaling loop over self.augument.keys(), with a factor other than 1
ScaleAugument(aug, factor) ==
    [k \in DOMAIN aug |->
        IF IsMultiplicable(aug[k]) THEN PyMul(aug[k], factor) ELSE aug[k]]

\* a loop that scales self.augument only
ScaleAugumentMaskSkipped(aug, mask, factor) == mask

\* the same loop's effect on self.augument_mask: the test reads self.augument
ScaleAugumentMask(aug, mask, factor) ==
    [k \in DOMAIN mask |->
        IF k \in DOMAIN aug /\ IsMultiplicable(aug[k])
        THEN PyMul(mask[k], factor) ELSE mask[k]]

ResolvedAugument(pp, ap) ==
    LET prep == Merge(DefaultPreprocessingParameters, pp)
        aug == Merge(DefaultAugument, ap)
        aug_factor == prep["augumentation_factor"].n
    IN  IF aug_factor # 1 THEN ScaleAugument(aug, aug_factor) ELSE aug

ResolvedAugumentMask(pp, ap) ==
    LET prep == Merge(DefaultPreprocessingParameters, pp)
        aug == Merge(DefaultAugument, ap)
        mask == Merge(DefaultAugument, ap)
        aug_factor == prep["augumentation_factor"].n
    IN  IF aug_factor # 1 THEN ScaleAugumentMask(aug, mask, aug_factor) ELSE mask

NoData ==
    [loaded |-> FALSE, train_images |-> << >>, train_masks |-> << >>,
     val_images |-> << >>, val_masks |-> << >>,
     test_images |-> << >>, test_masks |-> << >>, zca_fit |-> 0]

NoGenerators ==
    [ready |-> FALSE, datagen |-> EmptyDict, maskdatagen |-> EmptyDict,
     validdatagen |-> EmptyDict,
     image_flow |-> "None", mask_flow |-> "None",
     valid_image_flow |-> "None", valid_mask_flow |-> "None",
     train_steps |-> 0, valid_steps |-> 0]

NoMetrics ==
    [status |-> "none", n |-> 0, i |-> 0, jacc_sum |-> 0, tn |-> 0, tp |-> 0,
     fp |-> 0, fn |-> 0, test_jacc_sum |-> 0, test_jacc_above_thresh |-> 0]

NoneSeen == [identical |-> 0, disjoint |-> 0, other |-> 0, above |-> 0]

\* The state after Trainer(preprocessing_params=pp, augumentation_parameters=ap),
\* with the model directory on disk in state dir.
TrainerInit(pp, ap, dir) ==
    /\ model = "None"
    /\ mlflow = FALSE
    /\ input_shape = "default"
    /\ preprocessing_parameters = Merge(DefaultPreprocessingParameters, pp)
    /\ augument = ResolvedAugument(pp, ap)
    /\ augument_mask = ResolvedAugumentMask(pp, ap)
    /\ data = NoData
    /\ generators = NoGenerators
    /\ model_dir = dir
    /\ ctor_args = [preprocessing_params |-> pp, augumentation_parameters |-> ap]
    /\ last_op = "__init__"
    /\ settings = << >>
    /\ mlflow_calls = << >>
    /\ outcome = "None"
    /\ metrics = NoMetrics
    /\ seen = NoneSeen

----------------------------------------------------------------------------
(* Strings *)

LowerCase == << "a", "b", "c", "d", "e", "f", "g", "h", "i", "j", "k", "l", "m",
                "n", "o", "p", "q", "r", "s", "t", "u", "v", "w", "x", "y", "z" >>
UpperCase == << "A", "B", "C", "D", "E", "F", "G", "H", "I", "J", "K", "L", "M",
                "N", "O", "P", "Q", "R", "S", "T", "U", "V", "W", "X", "Y", "Z" >>

UpperChar(c) ==
    IF \E i \in 1..Len(LowerCase) : LowerCase[i] = c
    THEN UpperCase[CHOOSE i \in 1..Len(LowerCase) : LowerCase[i] = c]
    ELSE c

\* s.upper()
Upper(s) == [i \in 1..Len(s) |-> UpperChar(s[i])]

\* sub in s
Contains(s, sub) ==
    \E i \in 1..(Len(s) - Len(sub) + 1) : SubSeq(s, i, i + Len(sub) - 1) = sub

----------------------------------------------------------------------------
(* Trainer.load_prep_from_settings_string *)

\* the keyword of each flag
Keyword(flag) ==
    CASE flag = "augumentation" -> << "A", "U", "G" >>
      [] flag = "histogram_equalization" -> << "H", "E", "Q" >>
      [] flag = "per_channel_normalization" -> << "P", "C", "N" >>
      [] flag = "connected_components" -> << "C", "C" >>
      [] flag = "zca_whitening" -> << "Z", "C", "A" >>
      [] OTHER -> << "G", "A", "U", "S" >>

SettingsFlags == {"augumentation", "histogram_equalization",
                  "per_channel_normalization", "connected_components",
                  "zca_whitening", "gaussian_blur"}

\* the settings string taken as written, without upper()
SettingsKeyVerbatim(s) == s

\* the string the keywords are looked up in
SettingsKey(s) == Upper(s)

\* the six ifs: each sets its own flag and touches nothing else
PrepFromSettings(prep, s) ==
    [k \in DOMAIN prep |->
        IF k \in SettingsFlags /\ Contains(SettingsKey(s), Keyword(k))
        THEN BoolV(TRUE) ELSE prep[k]]

Idle == metrics.status # "running"

LoadPrepFromSettingsString(s) ==
    /\ Idle
    /\ preprocessing_parameters' = PrepFromSettings(preprocessing_parameters, s)
    /\ settings' = s
    /\ last_op' = "load_prep_from_settings_string"
    /\ mlflow_calls' = << >>
    /\ outcome' = "None"
    /\ UNCHANGED << augument, augument_mask, mlflow, model, input_shape, data,
                    generators, model_dir, ctor_args, metrics, seen >>

----------------------------------------------------------------------------
(* Trainer.mlflow_run_logs, Trainer.mlflow_stop_logs *)

MlflowRunLogs ==
    /\ Idle
    /\ mlflow' = TRUE
    /\ mlflow_calls' = << "start_run", "autolog", "log_param", "log_params",
                          "log_params", "log_params" >>
    /\ last_op' = "mlflow_run_logs"
    /\ outcome' = "None"
    /\ UNCHANGED << augument, augument_mask, preprocessing_parameters, model,
                    input_shape, data, generators, model_dir, ctor_args,
                    settings, metrics, seen >>

MlflowStopLogs ==
    /\ Idle
    /\ mlflow_calls' = << "end_run" >>
    /\ last_op' = "mlflow_stop_logs"
    /\ outcome' = "None"
    /\ UNCHANGED << augument, augument_mask, preprocessing_parameters, mlflow,
                    model, input_shape, data, generators, model_dir, ctor_args,
                    settings, metrics, seen >>

----------------------------------------------------------------------------
(* Trainer.__load_data_into_dict *)

\* A split is a sequence of samples; a sample is the sequence of the
\* transforms applied to it since it was read from its file.
FreshArray(n) == [i \in 1..n |-> << >>]

LoadDataIntoDict(nTrain, nVal, nTest) ==
    [loaded |-> TRUE,
     train_images |-> FreshArray(nTrain), train_masks |-> FreshArray(nTrain),
     val_images |-> FreshArray(nVal), val_masks |-> FreshArray(nVal),
     test_images |-> FreshArray(nTest), test_masks |-> FreshArray(nTest),
     zca_fit |-> 0]

LoadDataIntoDictCalls(tracking) ==
    IF tracking THEN << "log_param", "log_param", "log_param" >> ELSE << >>

----------------------------------------------------------------------------
(* Trainer.__apply_preprocessings *)

ApplyTo(arr, step) == [i \in 1..Len(arr) |-> Append(arr[i], step)]

\* for key in self.data.keys(): if 'images' in key: ...
OnImages(d, step) ==
    [d EXCEPT !.train_images = ApplyTo(@, step),
              !.val_images = ApplyTo(@, step),
              !.test_images = ApplyTo(@, step)]

Flag(prep, k) == Truthy(prep[k])

GaussianBlur(d, prep) ==
    IF Flag(prep, "gaussian_blur") THEN OnImages(d, "gaussian_blur") ELSE d

HistogramEqualization(d, prep) ==
    IF Flag(prep, "histogram_equalization")
    THEN OnImages(d, "histogram_equalization") ELSE d

ConnectedComponents(d, prep) ==
    IF Flag(prep, "connected_components")
    THEN OnImages(d, "connected_components") ELSE d

PerChannelNormalization(d, prep) ==
    IF Flag(prep, "per_channel_normalization")
    THEN OnImages(d, "per_channel_normalization") ELSE d

Normalization(d, prep) ==
    IF Flag(prep, "normalization")
    THEN [OnImages(d, "normalization") EXCEPT
              !.train_masks = ApplyTo(@, "normalization"),
              !.test_masks = ApplyTo(@, "normalization"),
              !.val_masks = ApplyTo(@, "normalization")]
    ELSE d

ZcaFitSamples == 250

Min(a, b) == IF a < b THEN a ELSE b

\* the indices of arr the loop "for i in range(len(train_images))" reaches
ZcaReached(arr, nTrain) == {i \in 1..Len(arr) : i <= nTrain}

ZcaStandardize(arr, nTrain) ==
    [i \in 1..Len(arr) |->
        IF i \in ZcaReached(arr, nTrain)
        THEN Append(arr[i], "zca_whitening") ELSE arr[i]]

ZcaWhitening(d, prep) ==
    IF Flag(prep, "zca_whitening")
    THEN LET nTrain == Len(d.train_images)
         IN  [d EXCEPT !.zca_fit = Min(nTrain, ZcaFitSamples),
                       !.train_images = ZcaStandardize(@, nTrain),
                       !.val_images = ZcaStandardize(@, nTrain),
                       !.test_images = ZcaStandardize(@, nTrain)]
    ELSE d

\* the pipeline with the global normalization ahead of the per-channel one
ApplyPreprocessingsNormalizationFirst(d, prep) ==
    ZcaWhitening(
      PerChannelNormalization(
        Normalization(
          ConnectedComponents(
            HistogramEqualization(
              GaussianBlur(d, prep), prep), prep), prep), prep), prep)

ApplyPreprocessings(d, prep) ==
    ZcaWhitening(
      Normalization(
        PerChannelNormalization(
          ConnectedComponents(
            HistogramEqualization(
              GaussianBlur(d, prep), prep), prep), prep), prep), prep)

\* the calls __apply_preprocessings makes to the tracking service
ApplyPreprocessingsCalls(prep, tracking) ==
    IF Flag(prep, "per_channel_normalization") THEN << "log_param" >> ELSE << >>

----------------------------------------------------------------------------
(* Trainer.load_data *)

\* self.augument (or self.augument_mask) after the "Disable data
\* augumentation" branch
AugumentAfterLoad(aug, prep) ==
    IF ~Flag(prep, "augumentation") THEN EmptyDict ELSE aug

Flow(batch_size) ==
    [batch_size |-> batch_size, shuffle |-> params.shuffle, seed |-> params.seed]

ImageFlow(batch_size) == Flow(batch_size)

MaskFlow(batch_size) == Flow(batch_size)

\* len(iterator): the number of batches of n samples
Steps(n, batch_size) == (n + batch_size - 1) \div batch_size

LoadData(nTrain, nVal, nTest) ==
    /\ Idle
    /\ LET d == ApplyPreprocessings(LoadDataIntoDict(nTrain, nVal, nTest),
                                    preprocessing_parameters)
           aug == AugumentAfterLoad(augument, preprocessing_parameters)
           mask == AugumentAfterLoad(augument_mask, preprocessing_parameters)
       IN  /\ data' = d
           /\ augument' = aug
           /\ augument_mask' = mask
           /\ generators' =
                [ready |-> TRUE, datagen |-> aug, maskdatagen |-> mask,
                 validdatagen |-> EmptyDict,
                 image_flow |-> ImageFlow(DefaultBatchSize),
                 mask_flow |-> MaskFlow(DefaultBatchSize),
                 valid_image_flow |-> Flow(DefaultBatchSize),
                 valid_mask_flow |-> Flow(DefaultBatchSize),
                 train_steps |-> Steps(nTrain, DefaultBatchSize),
                 valid_steps |-> Steps(nVal, DefaultBatchSize)]
    /\ input_shape' = IF Flag(preprocessing_parameters, "connected_components")
                      THEN "train_shape" ELSE input_shape
    /\ mlflow_calls' = LoadDataIntoDictCalls(mlflow)
                         \o ApplyPreprocessingsCalls(preprocessing_parameters, mlflow)
    /\ last_op' = "load_data"
    /\ outcome' = "None"
    /\ UNCHANGED << preprocessing_parameters, mlflow, model, model_dir,
                    ctor_args, settings, metrics, seen >>

----------------------------------------------------------------------------
(* Trainer.build_model, Trainer.train, Trainer.evaluate *)

BuildModel ==
    /\ Idle
    /\ model' = "UNet"
    /\ last_op' = "build_model"
    /\ mlflow_calls' = << >>
    /\ outcome' = "summary"
    /\ UNCHANGED << augument, augument_mask, preprocessing_parameters, mlflow,
                    input_shape, data, generators, model_dir, ctor_args,
                    settings, metrics, seen >>

\* self.model.fit raises when there is no model or no iterator; with
\* mlflow.tensorflow.autolog() on, the framework logs the fit
Train ==
    /\ Idle
    /\ last_op' = "train"
    /\ IF model = "None" \/ ~generators.ready
       THEN outcome' = "raised" /\ mlflow_calls' = << >>
       ELSE /\ outcome' = "None"
            /\ mlflow_calls' = IF mlflow THEN << "autolog" >> ELSE << >>
    /\ UNCHANGED << augument, augument_mask, preprocessing_parameters, mlflow,
                    model, input_shape, data, generators, model_dir, ctor_args,
                    settings, metrics, seen >>

Evaluate ==
    /\ Idle
    /\ last_op' = "evaluate"
    /\ IF model = "None" \/ ~data.loaded
       THEN outcome' = "raised" /\ mlflow_calls' = << >>
       ELSE /\ outcome' = "None"
            /\ mlflow_calls' = IF mlflow THEN << "log_param" >> ELSE << >>
    /\ UNCHANGED << augument, augument_mask, preprocessing_parameters, mlflow,
                    model, input_shape, data, generators, model_dir, ctor_args,
                    settings, metrics, seen >>

----------------------------------------------------------------------------
(* Trainer.save *)

\* The model directory is "exists", "missing" (its parent exists) or
\* "no_parent".  self.model.save_weights(path) fails when there is no model,
\* when the directory is not there, or when the disk refuses (io_ok false).
WriteFails(m, dir, io_ok) == m = "None" \/ dir # "exists" \/ ~io_ok

\* os.mkdir succeeds exactly on a missing directory whose parent exists
MkdirFails(dir) == dir # "missing"

\* a save() that writes again once the directory is created
SaveOutcomeRetry(m, dir, io_ok, tracking) ==
    IF ~WriteFails(m, dir, io_ok)
    THEN [write_attempts |-> 1, write_failed |-> FALSE, caught |-> FALSE,
          mkdir_calls |-> 0, dir_before |-> dir, dir_after |-> dir,
          raised |-> FALSE,
          returned_path |-> TRUE, file_written |-> TRUE, logged |-> tracking]
    ELSE IF MkdirFails(dir)
    THEN [write_attempts |-> 1, write_failed |-> TRUE, caught |-> TRUE,
          mkdir_calls |-> 1, dir_before |-> dir, dir_after |-> dir,
          raised |-> TRUE,
          returned_path |-> FALSE, file_written |-> FALSE, logged |-> FALSE]
    ELSE [write_attempts |-> 2, write_failed |-> TRUE, caught |-> TRUE,
          mkdir_calls |-> 1, dir_before |-> dir, dir_after |-> "exists",
          raised |-> WriteFails(m, "exists", io_ok),
          returned_path |-> ~WriteFails(m, "exists", io_ok),
          file_written |-> ~WriteFails(m, "exists", io_ok),
          logged |-> tracking /\ ~WriteFails(m, "exists", io_ok)]

\* What save() does: the try, the bare except with its os.mkdir, the log and
\* the return.
SaveOutcome(m, dir, io_ok, tracking) ==
    IF ~WriteFails(m, dir, io_ok)
    THEN [write_attempts |-> 1, write_failed |-> FALSE, caught |-> FALSE,
          mkdir_calls |-> 0, dir_before |-> dir, dir_after |-> dir,
          raised |-> FALSE,
          returned_path |-> TRUE, file_written |-> TRUE, logged |-> tracking]
    ELSE IF MkdirFails(dir)
    THEN [write_attempts |-> 1, write_failed |-> TRUE, caught |-> TRUE,
          mkdir_calls |-> 1, dir_before |-> dir, dir_after |-> dir,
          raised |-> TRUE,
          returned_path |-> FALSE, file_written |-> FALSE, logged |-> FALSE]
    ELSE [write_attempts |-> 1, write_failed |-> TRUE, caught |-> TRUE,
          mkdir_calls |-> 1, dir_before |-> dir, dir_after |-> "exists",
          raised |-> FALSE,
          returned_path |-> TRUE, file_written |-> FALSE, logged |-> tracking]

Save(io_ok) ==
    /\ Idle
    /\ LET o == SaveOutcome(model, model_dir, io_ok, mlflow)
       IN  /\ outcome' = o
           /\ model_dir' = o.dir_after
           /\ mlflow_calls' = IF o.logged THEN << "log_param" >> ELSE << >>
    /\ last_op' = "save"
    /\ UNCHANGED << augument, augument_mask, preprocessing_parameters, mlflow,
                    model, input_shape, data, generators, ctor_args, settings,
                    metrics, seen >>

----------------------------------------------------------------------------
(* Trainer.test_model_additional_metrics *)

\* A mask is the set of its positive pixels, after "mask > 0.5" for the
\* ground truth d and after the Otsu threshold for the prediction r.
Pixels == 1..NumPixels

Masks == SUBSET Pixels

RECURSIVE Gcd(_, _)
Gcd(a, b) == IF b = 0 THEN a ELSE Gcd(b, a % b)

RECURSIVE LcmUpTo(_)
LcmUpTo(n) == IF n <= 1 THEN 1
              ELSE (LcmUpTo(n - 1) * n) \div Gcd(LcmUpTo(n - 1), n)

\* Quotients inter / union are held exactly, as multiples of 1 / JaccScale.
JaccScale == LcmUpTo(NumPixels)

\* np.logical_and(d, r).sum() / np.logical_or(d, r).sum(), for a union > 0
ManualJaccard(d, r) ==
    (Cardinality(d \cap r) * JaccScale) \div Cardinality(d \cup r)

\* confusion_matrix(d, r).ravel()
ConfusionMatrix(d, r) ==
    [tn |-> Cardinality(Pixels \ (d \cup r)), fp |-> Cardinality(r \ d),
     fn |-> Cardinality(d \ r), tp |-> Cardinality(d \cap r)]

\* confusion_matrix is 1 x 1 when d and r hold one same label only, and the
\* unpacking into four names raises
UnpackRaises(d, r) == (d = {} /\ r = {}) \/ (d = Pixels /\ r = Pixels)

\* sklearn's jaccard_score(d, r): tp / (tp + fp + fn), and 0 when that
\* denominator is 0
LibraryJaccard(d, r) ==
    LET c == ConfusionMatrix(d, r)
    IN  IF c.tp + c.fp + c.fn = 0 THEN 0
        ELSE (c.tp * JaccScale) \div (c.tp + c.fp + c.fn)

ThresholdPercent == 65

\* test_jacc_sum >= 0.65
AboveThresh(test_jacc_sum) == 100 * test_jacc_sum >= ThresholdPercent * JaccScale

\* what one sample adds to the count test_jacc_above_thresh
AboveThreshIncrement(acc, d, r) == IF AboveThresh(acc.test_jacc_sum) THEN 1 ELSE 0

\* a loop body that assigns the sums of the Jaccard values instead of adding
LoopBodyOverwrite(acc, d, r) ==
    LET c == ConfusionMatrix(d, r)
    IN  [acc EXCEPT !.i = @ + 1,
                    !.jacc_sum = ManualJaccard(d, r),
                    !.tn = @ + c.tn, !.tp = @ + c.tp,
                    !.fp = @ + c.fp, !.fn = @ + c.fn,
                    !.test_jacc_above_thresh = @ + AboveThreshIncrement(acc, d, r),
                    !.test_jacc_sum = LibraryJaccard(d, r)]

\* one pass of the loop body over the sample (d, r)
LoopBody(acc, d, r) ==
    LET c == ConfusionMatrix(d, r)
    IN  [acc EXCEPT !.i = @ + 1,
                    !.jacc_sum = @ + ManualJaccard(d, r),
                    !.tn = @ + c.tn, !.tp = @ + c.tp,
                    !.fp = @ + c.fp, !.fn = @ + c.fn,
                    !.test_jacc_above_thresh = @ + AboveThreshIncrement(acc, d, r),
                    !.test_jacc_sum = @ + LibraryJaccard(d, r)]

\* the kind of a consumed sample
Identical(d, r) == d = r /\ d # {} /\ d # Pixels
Disjoint(d, r) == d \cap r = {} /\ d # {} /\ r # {}
OwnJaccardAbove(d, r) ==
    d \cup r # {}
    /\ 100 * Cardinality(d \cap r) > ThresholdPercent * Cardinality(d \cup r)

See(s, d, r) ==
    [identical |-> s.identical + (IF Identical(d, r) THEN 1 ELSE 0),
     disjoint |-> s.disjoint + (IF Disjoint(d, r) THEN 1 ELSE 0),
     other |-> s.other + (IF Identical(d, r) \/ Disjoint(d, r) THEN 0 ELSE 1),
     above |-> s.above + (IF OwnJaccardAbove(d, r) THEN 1 ELSE 0)]

\* the call, up to the loop: self.model.predict(self.data['test_images'])
TestModelAdditionalMetrics ==
    /\ Idle
    /\ last_op' = "test_model_additional_metrics"
    /\ mlflow_calls' = << >>
    /\ seen' = NoneSeen
    /\ IF model = "None" \/ ~data.loaded
       THEN /\ metrics' = [NoMetrics EXCEPT !.status = "error"]
            /\ outcome' = "raised"
       ELSE /\ metrics' = [NoMetrics EXCEPT !.status = "running",
                                            !.n = Len(data.test_images)]
            /\ outcome' = "None"
    /\ UNCHANGED << augument, augument_mask, preprocessing_parameters, mlflow,
                    model, input_shape, data, generators, model_dir, ctor_args,
                    settings >>

\* one iteration of "for r, mask in zip(results, self.data['test_masks'])"
MetricsLoop(d, r) ==
    /\ metrics.status = "running"
    /\ metrics.i < metrics.n
    /\ IF UnpackRaises(d, r)
       THEN /\ metrics' = [metrics EXCEPT !.status = "error"]
            /\ outcome' = "raised"
            /\ seen' = seen
       ELSE /\ metrics' = LoopBody(metrics, d, r)
            /\ outcome' = outcome
            /\ seen' = See(seen, d, r)
    /\ UNCHANGED << augument, augument_mask, preprocessing_parameters, mlflow,
                    model, input_shape, data, generators, model_dir, ctor_args,
                    last_op, settings, mlflow_calls >>

\* after the loop: the ratios, the prints, the logging and the return
MetricsReturn ==
    /\ metrics.status = "running"
    /\ metrics.i = metrics.n
    /\ metrics' = [metrics EXCEPT !.status = "done"]
    /\ outcome' = "array"
    /\ mlflow_calls' =
         IF mlflow THEN << "log_metric", "log_metric", "log_metric", "log_metric",
                           "log_metric", "log_metric", "log_metric", "log_metric" >>
         ELSE << >>
    /\ UNCHANGED << augument, augument_mask, preprocessing_parameters, mlflow,
                    model, input_shape, data, generators, model_dir, ctor_args,
                    last_op, settings, seen >>

\* The reported ratios, as numerator and denominator.
Ratio(a, b) == [num |-> a, den |-> b]

mean_jaccard_index == Ratio(metrics.jacc_sum, JaccScale * metrics.n)
test_jaccard_score == Ratio(metrics.test_jacc_sum, JaccScale * metrics.n)
isic_eval_score == Ratio(metrics.test_jacc_above_thresh, metrics.n)
test_sensitivity == Ratio(metrics.tp, metrics.tp + metrics.fn)
test_specifitivity == Ratio(metrics.tn, metrics.tn + metrics.fp)
test_accuracy ==
    Ratio(metrics.tp + metrics.tn, metrics.tp + metrics.tn + metrics.fp + metrics.fn)
test_dsc == Ratio(2 * metrics.tp, 2 * metrics.tp + metrics.fp + metrics.fn)
test_precision == Ratio(metrics.tp, metrics.tp + metrics.fp)

----------------------------------------------------------------------------
(* Inputs *)

NEAREST == << "n", "e", "a", "r", "e", "s", "t" >>

\* the mappings from at most maxk of the keys to the values
Dicts(keys, vals, maxk) ==
    UNION {[S -> vals] : S \in {T \in SUBSET keys : Cardinality(T) <= maxk}}

AugOverrideKeys == {"zoom_range", "cval", "fill_mode", "horizontal_flip",
                    "channel_shift_range"}

AugOverrideValues ==
    {FloatV(10), FloatV(-50), IntV(45), IntV(-10), BoolV(FALSE),
     StrV(NEAREST)}

AugOverrides == Dicts(AugOverrideKeys, AugOverrideValues, MaxOverrides)

FactorOverrides ==
    Dicts({"augumentation_factor"}, {IntV(1), IntV(2), IntV(3)}, 1)

AugumentationOverrides == Dicts({"augumentation"}, {BoolV(TRUE)}, 1)

CtorPrepOverrides ==
    {Merge(f, a) : f \in FactorOverrides, a \in AugumentationOverrides}

\* every combination of the six step flags, each set away from its default
StepFlags == {"gaussian_blur", "histogram_equalization", "connected_components",
              "per_channel_normalization", "normalization", "zca_whitening"}

StepFlagOverrides ==
    {[k \in S |-> BoolV(k # "normalization")] : S \in SUBSET StepFlags}

DirStates == {"exists", "missing", "no_parent"}

SplitSizes == 1..MaxSamples

AUG_HEQ_CC == << "a", "u", "g", "_", "h", "e", "q", "_", "c", "c" >>

SettingsTokens ==
    { << >>, << "a", "u", "g" >>, << "H", "E", "Q" >>, << "P", "c", "n" >>, << "c", "c" >>,
      << "z", "c", "a" >>, << "G", "a", "u", "s" >>, << "_" >>, << "c" >> }

SettingsStrings == {a \o b : a, b \in SettingsTokens} \cup {AUG_HEQ_CC}

LifecycleSettings == { << "a", "u", "g" >>, << "p", "c", "n" >> }

----------------------------------------------------------------------------
(* The life of one Trainer: every method, on small inputs. *)

Init == \E dir \in DirStates : TrainerInit(EmptyDict, EmptyDict, dir)

Next ==
    \/ \E s \in LifecycleSettings : LoadPrepFromSettingsString(s)
    \/ MlflowRunLogs
    \/ MlflowStopLogs
    \/ LoadData(1, 1, 1)
    \/ BuildModel
    \/ Train
    \/ \E io_ok \in BOOLEAN : Save(io_ok)
    \/ Evaluate
    \/ TestModelAdditionalMetrics
    \/ \E d \in {{1}}, r \in {{1}, {2}} : MetricsLoop(d, r)
    \/ MetricsReturn

Spec == Init /\ [][Next]_vars

(* Construction with override mappings, then settings strings and loads. *)

InitCtor ==
    \E pp \in CtorPrepOverrides, ap \in AugOverrides : TrainerInit(pp, ap, "exists")

NextCtor ==
    \/ \E s \in LifecycleSettings : LoadPrepFromSettingsString(s)
    \/ LoadData(1, 1, 1)

SpecCtor == InitCtor /\ [][NextCtor]_vars

(* Settings strings on a Trainer. *)

InitSettings ==
    \E pp \in Dicts({"gaussian_blur"}, {BoolV(TRUE)}, 1) :
        TrainerInit(pp, EmptyDict, "exists")

NextSettings == \E s \in SettingsStrings : LoadPrepFromSettingsString(s)

SpecSettings == InitSettings /\ [][NextSettings]_vars

(* The preprocessing pipeline under every combination of its flags. *)

InitPrep == \E pp \in StepFlagOverrides : TrainerInit(pp, EmptyDict, "exists")

NextPrep == \E nTrain \in SplitSizes, nVal \in SplitSizes, nTest \in SplitSizes :
                LoadData(nTrain, nVal, nTest)

SpecPrep == InitPrep /\ [][NextPrep]_vars

(* The metrics of a built model over a loaded test split. *)

InitMetrics == TrainerInit(EmptyDict, EmptyDict, "exists")

NextMetrics ==
    \/ \E nTest \in 1..MaxTestSamples : LoadData(1, 1, nTest)
    \/ BuildModel
    \/ TestModelAdditionalMetrics
    \/ \E d \in Masks, r \in Masks : MetricsLoop(d, r)
    \/ MetricsReturn

SpecMetrics == InitMetrics /\ [][NextMetrics]_vars

----------------------------------------------------------------------------
(* The claims *)

IsNumeric(v) == v.kind \in {"int", "float"}

CtorFactor ==
    Merge(DefaultPreprocessingParameters,
          ctor_args.preprocessing_params)["augumentation_factor"].n

BaseAugument == Merge(DefaultAugument, ctor_args.augumentation_parameters)

ScaledByFactor(v) == IF IsNumeric(v) THEN [v EXCEPT !.n = @ * CtorFactor] ELSE v

\* C1: after construction with a factor other than 1, every numeric
\* augmentation value (negative ones included) is the base value times the
\* factor in both configurations, and every other value is the base value.
C1_NumericValuesScaled ==
    (last_op = "__init__" /\ CtorFactor # 1) =>
        \A k \in DOMAIN BaseAugument :
            /\ augument[k] = ScaledByFactor(BaseAugument[k])
            /\ augument_mask[k] = ScaledByFactor(BaseAugument[k])

RatioEq(a, b) == a.num * b.den = b.num * a.den

\* C2: over N samples of which k are identical to their ground truth and the
\* others disjoint from it, both reported mean Jaccard values are k / N.
C2_MeanJaccardOfIdenticalAndDisjoint ==
    (metrics.status = "done" /\ seen.other = 0) =>
        /\ seen.identical + seen.disjoint = metrics.n
        /\ RatioEq(mean_jaccard_index, Ratio(seen.identical, metrics.n))
        /\ RatioEq(test_jaccard_score, Ratio(seen.identical, metrics.n))

C2_Witness ==
    /\ metrics.status = "done"
    /\ seen.other = 0
    /\ seen.identical = 2
    /\ seen.disjoint = 2
    /\ RatioEq(mean_jaccard_index, Ratio(1, 2))

\* C3: the reported isic_eval_score is the fraction of the test samples
\* whose own Jaccard index exceeds 0.65.
C3_IsicIsFractionAboveBar ==
    metrics.status = "done" =>
        RatioEq(isic_eval_score, Ratio(seen.above, metrics.n))

ClaimOps == {"__init__", "load_prep_from_settings_string", "load_data",
             "build_model", "train", "save", "evaluate",
             "test_model_additional_metrics"}

\* C4: no method of the claim's list calls the tracking service unless
\* mlflow_run_logs was called earlier.
C4_NoTrackingBeforeRunLogs ==
    (last_op \in ClaimOps /\ ~mlflow) => mlflow_calls = << >>

StepRank(step) ==
    CASE step = "gaussian_blur" -> 1
      [] step = "histogram_equalization" -> 2
      [] step = "connected_components" -> 3
      [] step = "per_channel_normalization" -> 4
      [] step = "normalization" -> 5
      [] OTHER -> 6

Range(f) == {f[i] : i \in DOMAIN f}

FlaggedSteps == {k \in StepFlags : Flag(preprocessing_parameters, k)}

InFixedOrder(h) == \A i, j \in 1..Len(h) : i < j => StepRank(h[i]) < StepRank(h[j])

\* C5: the steps applied to the images are the steps whose flag is true, in
\* the order blur, equalization, components, per-channel normalization,
\* normalization, whitening: every training image went through exactly the
\* flagged steps, and no image of any split through an unflagged step or
\* through two steps out of that order.
C5_FlaggedStepsInFixedOrder ==
    data.loaded =>
        /\ \A i \in 1..Len(data.train_images) :
               Range(data.train_images[i]) = FlaggedSteps
        /\ \A arr \in {data.train_images, data.val_images, data.test_images} :
               \A i \in 1..Len(arr) :
                   Range(arr[i]) \subseteq FlaggedSteps /\ InFixedOrder(arr[i])

C5_Witness ==
    /\ data.loaded
    /\ FlaggedSteps = StepFlags
    /\ data.train_images[1] =
         << "gaussian_blur", "histogram_equalization", "connected_components",
            "per_channel_normalization", "normalization", "zca_whitening" >>

\* C6: the image and the mask augmentation configurations are equal in
\* every state, and the image and mask generators and flows are created
\* with equal parameters.
C6_ImageAndMaskConfiguredAlike ==
    /\ augument = augument_mask
    /\ generators.ready =>
         /\ generators.datagen = generators.maskdatagen
         /\ generators.image_flow = generators.mask_flow

C6_Witness ==
    /\ last_op = "load_data"
    /\ CtorFactor = 2
    /\ "cval" \in DOMAIN ctor_args.augumentation_parameters
    /\ generators.ready
    /\ generators.datagen # EmptyDict
    /\ generators.datagen["cval"] = IntV(90)
    /\ generators.maskdatagen["rotation_range"] = IntV(60)

LowerChar(c) ==
    IF \E i \in 1..Len(UpperCase) : UpperCase[i] = c
    THEN LowerCase[CHOOSE i \in 1..Len(UpperCase) : UpperCase[i] = c]
    ELSE c

ClaimKeyword(flag) ==
    CASE flag = "augumentation" -> << "a", "u", "g" >>
      [] flag = "histogram_equalization" -> << "h", "e", "q" >>
      [] flag = "per_channel_normalization" -> << "p", "c", "n" >>
      [] flag = "connected_components" -> << "c", "c" >>
      [] flag = "zca_whitening" -> << "z", "c", "a" >>
      [] flag = "gaussian_blur" -> << "g", "a", "u", "s" >>
      [] OTHER -> << >>

\* the keyword of the flag occurs in s, whatever the case of the letters
KeywordOccurs(flag, s) ==
    LET kw == ClaimKeyword(flag)
    IN  /\ kw # << >>
        /\ \E i \in 0..(Len(s) - Len(kw)) :
               \A j \in 1..Len(kw) : LowerChar(s[i + j]) = kw[j]

\* C7: a call of load_prep_from_settings_string makes true each flag whose
\* keyword occurs in the string in any case, and leaves every other
\* parameter as it was; "aug_heq_cc" on the defaults sets augumentation,
\* histogram_equalization and connected_components and nothing else.
C7_SettingsStringSetsItsFlags ==
    [][ last_op' = "load_prep_from_settings_string" =>
          /\ DOMAIN preprocessing_parameters' = DOMAIN preprocessing_parameters
          /\ \A k \in DOMAIN preprocessing_parameters :
                 preprocessing_parameters'[k] =
                     IF KeywordOccurs(k, settings') THEN BoolV(TRUE)
                     ELSE preprocessing_parameters[k]
          /\ (settings' = AUG_HEQ_CC
                /\ preprocessing_parameters = DefaultPreprocessingParameters) =>
               preprocessing_parameters' =
                   [DefaultPreprocessingParameters EXCEPT
                        !["augumentation"] = BoolV(TRUE),
                        !["histogram_equalization"] = BoolV(TRUE),
                        !["connected_components"] = BoolV(TRUE)]
      ]_vars

C7_Witness ==
    /\ last_op = "load_prep_from_settings_string"
    /\ settings = AUG_HEQ_CC
    /\ preprocessing_parameters =
         [DefaultPreprocessingParameters EXCEPT
              !["augumentation"] = BoolV(TRUE),
              !["histogram_equalization"] = BoolV(TRUE),
              !["connected_components"] = BoolV(TRUE)]

\* C8, as claimed: whenever the weight write fails, the failure is caught,
\* the directory is created, the write is not repeated, nothing is raised,
\* and the path is returned (and logged when tracking is on) with no file
\* written.
C8_AnyWriteFailureIsSwallowed ==
    (last_op = "save" /\ outcome.write_failed) =>
        /\ outcome.caught
        /\ outcome.mkdir_calls = 1
        /\ model_dir = "exists" /\ outcome.dir_before # "exists"
        /\ outcome.write_attempts = 1
        /\ ~outcome.raised
        /\ outcome.returned_path
        /\ mlflow => outcome.logged
        /\ ~outcome.file_written

\* C8, amended: whenever the weight write fails, the failure is caught,
\* directory creation is attempted once and the write is not repeated, so no
\* file is written; when the creation succeeds nothing is raised and the
\* path is returned (and logged when tracking is on); when it fails (the
\* directory exists already, or its parent is missing) that error reaches
\* the caller and nothing is returned or logged.
C8_WriteFailureSwallowedWhenMkdirSucceeds ==
    (last_op = "save" /\ outcome.write_failed) =>
        /\ outcome.caught
        /\ outcome.mkdir_calls = 1
        /\ outcome.write_attempts = 1
        /\ ~outcome.file_written
        /\ IF outcome.dir_before = "missing"
           THEN /\ model_dir = "exists"
                /\ ~outcome.raised
                /\ outcome.returned_path
                /\ outcome.logged = mlflow
                /\ mlflow_calls = IF mlflow THEN << "log_param" >> ELSE << >>
           ELSE /\ model_dir = outcome.dir_before
                /\ outcome.raised
                /\ ~outcome.returned_path
                /\ mlflow_calls = << >>

C8_Witness ==
    /\ last_op = "save"
    /\ outcome.write_failed
    /\ outcome.dir_before = "missing"
    /\ model = "UNet"
    /\ mlflow
    /\ outcome.returned_path
    /\ ~outcome.file_written

Count(h, step) == Cardinality({i \in 1..Len(h) : h[i] = step})

\* C9: with zca_whitening on, the transform is fitted on the first 250
\* training images (all when fewer) and every sample of the train,
\* validation and test images is whitened exactly once.
C9_EverySampleWhitenedOnce ==
    (data.loaded /\ Flag(preprocessing_parameters, "zca_whitening")) =>
        /\ data.zca_fit = Min(Len(data.train_images), ZcaFitSamples)
        /\ \A arr \in {data.train_images, data.val_images, data.test_images} :
               \A i \in 1..Len(arr) : Count(arr[i], "zca_whitening") = 1

\* C10: each load_data builds the image and mask training generators with
\* the full resolved augmentation parameters when the augumentation flag is
\* true at that call and with none when it is false, and the validation
\* generator with none.
C10_LoadDataFollowsTheFlag ==
    last_op = "load_data" =>
        LET expected ==
              IF Flag(preprocessing_parameters, "augumentation")
              THEN ResolvedAugument(ctor_args.preprocessing_params,
                                    ctor_args.augumentation_parameters)
              ELSE EmptyDict
        IN  /\ generators.datagen = expected
            /\ generators.maskdatagen = expected
            /\ generators.validdatagen = EmptyDict

====
